---- MODULE Spec2Model ----
(***************************************************************************)
(* Model of dms-input-idle-inhibit: the monitor orchestrator of            *)
(* src/src/index.ts (startMonitor, onInput, scheduleRelease, the periodic  *)
(* rescan and shutdown) together with the functional inhibition controller *)
(* of src/src/idle-inhibit.ts (inhibit, release, callDms,                  *)
(* checkDmsAvailable).                                                     *)
(*                                                                         *)
(* The program runs on one JavaScript event loop.  Every action below is   *)
(* one turn of that loop: a callback together with all the promise         *)
(* continuations (microtasks) it makes runnable.  A handler that awaits a  *)
(* subprocess is cut at the await: the subprocess is an entry of `calls`   *)
(* and its exit is a later turn.                                           *)
(*                                                                         *)
(* Time is discrete.  A pending timer carries the number of ticks left     *)
(* until it is due; Tick lets one unit of time pass and is blocked while a *)
(* timer is due, so a timer fires exactly `duration` after it was set.     *)
(* Subprocesses take any amount of time.                                   *)
(***************************************************************************)
EXTENDS Integers, Sequences, FiniteSets, Bags, TLC

\* ------------------------------------------------------------------------
\* Bounds of the model
\* ------------------------------------------------------------------------

\* options.duration, in ticks (the program's default is 5000 ms)
Duration == 2

\* number of activity (non-SYN) events the devices deliver in one run
MaxEvents == 3

\* number of SIGINT/SIGTERM signals delivered in one run
MaxSignals == 2

\* events and signals delivered in a run in which device nodes come and go
ScanEvents == 1

ScanSignals == 1

\* buffers handed to parseEvent are at most this long
MaxBufLen == 26

\* calls of open() and of close() on one reader, and reads that complete
MaxOpenCalls == 2

MaxCloseCalls == 2

MaxReads == 3

\* the counters of `backend` stop counting here (MaxCount stands for
\* "MaxCount or more")
MaxCount == 2
\* calls of inhibit() and of release() made on one IdleInhibitor object
MaxInhibitCalls == 3
MaxReleaseCalls == 2

\* ------------------------------------------------------------------------
\* Program constants
\* ------------------------------------------------------------------------

EV_SYN == 0
EV_ABS == 3

ABS_X == 0
ABS_Y == 1

BTN_JOYSTICK == 288
BTN_GAMEPAD == 304
BTN_TOOL_FINGER == 325
BTN_TOUCH == 330

\* bytes of one struct input_event
RecordSize == 24

\* bits of one word of a capability bitmask (a 64-bit system)
WordBits == 64

\* the event types the devices of the model deliver
EventTypes == {EV_SYN, EV_ABS}

\* device nodes of the model, in directory order, and how the classifier
\* sees each of them: event0 is a touchpad, event1 matches both isTouchpad
\* and isGamepad (a hybrid device), event2 is a gamepad
PathOrder == <<"event0", "event1", "event2">>

Paths == {PathOrder[i] : i \in 1..Len(PathOrder)}

DeviceClasses == [p \in Paths |->
                    CASE p = "event0" -> {"touchpad"}
                      [] p = "event1" -> {"touchpad", "gamepad"}
                      [] p = "event2" -> {"gamepad"}]

\* releaseTimeoutId = null
NoTimer == 0

VARIABLES
    options,          \* CliOptions: touchpadOnly, gamepadOnly
    phase,            \* "init" | "running" | "shutdown" | "exited"
    exitCode,         \* status passed to process.exit, -1 while alive
    inhibitor,        \* monitorState.current.inhibitor
    releaseTimeoutId, \* monitorState.current.releaseTimeoutId (NoTimer = null)
    devices,          \* monitorState.current.devices: path -> [type, open]
    intervalActive,   \* the setInterval of the periodic rescan is armed
    timers,           \* pending setTimeout timers: [id, left]
    calls,            \* bag of the subprocesses in flight, each with the await it resumes
    backend,          \* what the backend has been asked: counters, last command
    limits,           \* environment: how many events and signals a run delivers
    present,          \* environment: device nodes currently enumerated by sysfs
    dmsInPath,        \* environment: `which dms` succeeds
    hist,             \* history of the run, read by the properties only
    last,             \* the handler that ran last, read by the properties only
    call,             \* a call of one of the pure functions: its name and argument
    result,           \* what that call returned or threw, pending before it ran
    reader,           \* one EvdevDevice object, its descriptor and its callbacks
    idleInhibitor     \* one IdleInhibitor object, its timers and its subprocesses

\* the environment of a run; only device nodes change while it runs
env == <<options, limits, present, dmsInPath>>

\* the pure functions (parseEvent, isTouchpad, isGamepad), the reader class
\* EvdevDevice and the class IdleInhibitor are exercised on their own; the
\* monitor does not touch these variables
pure == <<call, result, reader, idleInhibitor>>

vars == <<env, phase, exitCode, inhibitor, releaseTimeoutId, devices,
          intervalActive, timers, calls, backend, hist, last, pure>>

\* ------------------------------------------------------------------------
\* idle-inhibit.ts: functional controller
\* ------------------------------------------------------------------------

createInhibitor == [active |-> FALSE, dmsAvailable |-> "null"]

\* The part of the state a handler and its continuations work on.
Cur == [inhibitor |-> inhibitor, releaseTimeoutId |-> releaseTimeoutId,
        timers |-> timers, calls |-> calls, backend |-> backend,
        phase |-> phase, exitCode |-> exitCode]

Commit(s) ==
    /\ inhibitor' = s.inhibitor
    /\ releaseTimeoutId' = s.releaseTimeoutId
    /\ timers' = s.timers
    /\ calls' = s.calls
    /\ backend' = s.backend
    /\ phase' = s.phase
    /\ exitCode' = s.exitCode

\* smallest identifier not in use (a new Timer object)
FreshId(used) ==
    CHOOSE i \in 1..(Cardinality(used) + 1) :
        /\ i \notin used
        /\ \A j \in 1..(i - 1) : j \in used

clearReleaseTimeout(s) ==
    IF s.releaseTimeoutId # NoTimer
    THEN [s EXCEPT !.timers = {t \in @ : t.id # s.releaseTimeoutId},
                   !.releaseTimeoutId = NoTimer]
    ELSE s

scheduleReleaseNoClear(s, duration) ==
    LET id == FreshId({t.id : t \in s.timers} \cup {s.releaseTimeoutId})
    IN  [s EXCEPT !.timers = @ \cup {[id |-> id, left |-> duration]},
                  !.releaseTimeoutId = id]

scheduleRelease(s, duration) ==
    LET c  == clearReleaseTimeout(s)
        id == FreshId({t.id : t \in c.timers} \cup {c.releaseTimeoutId})
    IN  [c EXCEPT !.timers = @ \cup {[id |-> id, left |-> duration]},
                  !.releaseTimeoutId = id]

\* process.exit(code): the event loop is gone, and with it every pending
\* timer and every callback waiting for a subprocess
processExit(s, code) ==
    [s EXCEPT !.phase = "exited", !.exitCode = code, !.timers = {}, !.calls = EmptyBag]

\* Resume as it would be if callDms rejected when the backend is missing:
\* the code after the await would not run.
ResumeUnlessFailed(s, origin, ret) ==
    IF ~dmsInPath THEN s
    ELSE CASE origin = "input" ->
                 scheduleRelease([s EXCEPT !.inhibitor = ret], Duration)
           [] origin = "timer" ->
                 [s EXCEPT !.inhibitor = ret, !.releaseTimeoutId = NoTimer]
           [] origin = "shutdown" ->
                 processExit(s, 0)

\* What runs when an awaited inhibit/release promise settles with `ret`:
\*   "input"    the rest of onInput after `await inhibit(...)`
\*   "timer"    the .then callback of the release timer
\*   "shutdown" the rest of shutdown after `await release(...)`
Resume(s, origin, ret) ==
    CASE origin = "input" ->
            scheduleRelease([s EXCEPT !.inhibitor = ret], Duration)
      [] origin = "timer" ->
            [s EXCEPT !.inhibitor = ret, !.releaseTimeoutId = NoTimer]
      [] origin = "shutdown" ->
            processExit(s, 0)

\* a counter of `backend` goes up by one
Count(n) == IF n < MaxCount THEN n + 1 ELSE n

\* spawn("dms", ["ipc", "call", "inhibit", command])
\* backend.nDisableShutdown counts the disable commands that shutdown()
\* issues, backend.nDisableAfterInt those issued since the first signal.
spawnDms(s, command, origin, ret, seq) ==
    LET b  == s.backend
        d  == command = "disable"
    IN  [s EXCEPT
           !.calls = @ (+) SetToBag({[cmd |-> command, origin |-> origin,
                                      stage |-> "dms", ret |-> ret, seq |-> seq]}),
           !.backend = [b EXCEPT
               !.nEnable = IF command = "enable" THEN Count(@) ELSE @,
               !.nDisable = IF d THEN Count(@) ELSE @,
               !.nDisableShutdown = IF d /\ origin = "shutdown" THEN Count(@) ELSE @,
               !.nDisableAfterInt = IF d /\ s.phase = "shutdown" THEN Count(@) ELSE @,
               !.lastCmd = command]]

\* checkDmsAvailable: the probe runs unless the state passed in already
\* carries its result
checkDmsAvailable(state) == state.dmsAvailable = "null"

\* callDms up to its first subprocess
callDms(s, state, command, origin, ret, seq) ==
    IF checkDmsAvailable(state)
    THEN [s EXCEPT
            !.calls = @ (+) SetToBag({[cmd |-> command, origin |-> origin,
                                       stage |-> "which", ret |-> ret, seq |-> seq]}),
            !.backend.nProbe = Count(@)]
    ELSE IF state.dmsAvailable = "no"
    THEN Resume(s, origin, ret)
    ELSE spawnDms(s, command, origin, ret, seq)

inhibit(s, state, origin) ==
    LET newState == [state EXCEPT !.active = TRUE]
        n        == Count(s.backend.nInhibit)
    IN  callDms([s EXCEPT !.backend.nInhibit = n],
                newState, "enable", origin, newState, n)

releaseAlways(s, state, origin) ==
    LET newState == [state EXCEPT !.active = FALSE]
    IN  callDms(s, newState, "disable", origin, newState, 0)

release(s, state, origin) ==
    IF ~state.active
    THEN Resume(s, origin, state)
    ELSE LET newState == [state EXCEPT !.active = FALSE]
         IN  callDms(s, newState, "disable", origin, newState, 0)

\* ------------------------------------------------------------------------
\* index.ts: device scanning
\* ------------------------------------------------------------------------

\* findTouchpads / findGamepads: the enumerated devices of one class, in
\* directory order
findClass(pres, class) ==
    SelectSeq(PathOrder, LAMBDA p : p \in pres /\ class \in DeviceClasses[p])

Tagged(paths, type) ==
    [i \in 1..Len(paths) |-> [path |-> paths[i], type |-> type]]

\* getDevicesToMonitor with the two flags taken for each other
getDevicesToMonitorSwapped(opts, pres) ==
    (IF ~opts.touchpadOnly THEN Tagged(findClass(pres, "touchpad"), "touchpad")
                           ELSE <<>>)
    \o
    (IF ~opts.gamepadOnly THEN Tagged(findClass(pres, "gamepad"), "gamepad")
                          ELSE <<>>)

getDevicesToMonitor(opts, pres) ==
    (IF ~opts.gamepadOnly THEN Tagged(findClass(pres, "touchpad"), "touchpad")
                          ELSE <<>>)
    \o
    (IF ~opts.touchpadOnly THEN Tagged(findClass(pres, "gamepad"), "gamepad")
                           ELSE <<>>)

\* The loop of scanAndConnectDevices from entry i on.  `ok` holds the
\* indices of the entries whose openDevice succeeds (connectDevice returns a
\* device); for the others connectDevice returns null.  acc.devices is
\* newDevices.
\* (monitoredPaths, which the loop also extends, is never read by the
\* program and is left out.)
\* acc.tried and acc.opened list the calls of connectDevice and the ones
\* that returned a device.
\* (scanLoopNoCheck is the loop without the has() test: every entry is
\* connected, and the node of a tracked device opens.)
RECURSIVE scanLoopNoCheck(_, _, _, _)
scanLoopNoCheck(i, list, acc, ok) ==
    IF i > Len(list) THEN acc
    ELSE LET devInfo == list[i]
         IN  IF i \in ok \/ devInfo.path \in DOMAIN acc.devices
             THEN scanLoopNoCheck(i + 1, list,
                     [devices |-> (devInfo.path :> [type |-> devInfo.type, open |-> TRUE])
                                      @@ acc.devices,
                      tried |-> Append(acc.tried, devInfo.path),
                      opened |-> Append(acc.opened, devInfo.path)],
                     ok)
             ELSE scanLoopNoCheck(i + 1, list,
                     [acc EXCEPT !.tried = Append(@, devInfo.path)], ok)

\* (scanLoopStopOnFailure is the loop leaving at the first open that
\* fails.)
RECURSIVE scanLoopStopOnFailure(_, _, _, _)
scanLoopStopOnFailure(i, list, acc, ok) ==
    IF i > Len(list) THEN acc
    ELSE LET devInfo == list[i]
         IN  IF devInfo.path \notin DOMAIN acc.devices
             THEN IF i \in ok
                  THEN scanLoopStopOnFailure(i + 1, list,
                          [devices |-> acc.devices @@
                               (devInfo.path :> [type |-> devInfo.type, open |-> TRUE]),
                           tried |-> Append(acc.tried, devInfo.path),
                           opened |-> Append(acc.opened, devInfo.path)],
                          ok)
                  ELSE [acc EXCEPT !.tried = Append(@, devInfo.path)]
             ELSE scanLoopStopOnFailure(i + 1, list, acc, ok)

RECURSIVE scanLoop(_, _, _, _)
scanLoop(i, list, acc, ok) ==
    IF i > Len(list) THEN acc
    ELSE LET devInfo == list[i]
         IN  IF devInfo.path \notin DOMAIN acc.devices
             THEN IF i \in ok
                  THEN scanLoop(i + 1, list,
                          [devices |-> acc.devices @@
                               (devInfo.path :> [type |-> devInfo.type, open |-> TRUE]),
                           tried |-> Append(acc.tried, devInfo.path),
                           opened |-> Append(acc.opened, devInfo.path)],
                          ok)
                  ELSE scanLoop(i + 1, list,
                          [acc EXCEPT !.tried = Append(@, devInfo.path)], ok)
             ELSE scanLoop(i + 1, list, acc, ok)

\* the entries of the list for which the loop may reach connectDevice
Attempts(devs, opts, pres) ==
    LET list == getDevicesToMonitor(opts, pres)
    IN  {i \in 1..Len(list) : list[i].path \notin DOMAIN devs}

scanAndConnectDevices(devs, opts, pres, ok) ==
    scanLoop(1, getDevicesToMonitor(opts, pres),
             [devices |-> devs, tried |-> <<>>, opened |-> <<>>], ok)

isDeviceOpen(device) == device.open

closeDevice(device) == [device EXCEPT !.open = FALSE]

cleanupInverted(devs) ==
    LET keep == {p \in DOMAIN devs : ~isDeviceOpen(devs[p])}
    IN  [p \in keep |-> devs[p]]

cleanupDisconnectedDevices(devs) ==
    LET keep == {p \in DOMAIN devs : isDeviceOpen(devs[p])}
    IN  [p \in keep |-> devs[p]]

\* ------------------------------------------------------------------------
\* index.ts: input handling
\* ------------------------------------------------------------------------

handleInputNoFilter(type) == TRUE

\* handleInput(...).shouldInhibit
handleInput(type) == type # EV_SYN

\* ------------------------------------------------------------------------
\* evdev.ts: parseEvent
\* ------------------------------------------------------------------------

\* A Buffer is a sequence of bytes.  A call of a pure function ends in
\* Returned(value) or in Threw(error).
Returned(v) == [state |-> "returned", value |-> v]

Threw(e) == [state |-> "threw", error |-> e]

\* the number a little-endian byte string stands for; signed: the top byte
\* carries the sign (two's complement)
RECURSIVE LEUnsigned(_)
LEUnsigned(bytes) ==
    IF bytes = <<>> THEN 0 ELSE Head(bytes) + 256 * LEUnsigned(Tail(bytes))

LESigned(bytes) ==
    LEUnsigned([bytes EXCEPT ![Len(bytes)] = IF @ >= 128 THEN @ - 256 ELSE @])

\* Buffer.readXxxLE(offset) reads n bytes and throws a RangeError when the
\* buffer ends before offset + n
InBounds(buffer, offset, n) == offset + n <= Len(buffer)

Field(buffer, offset, n) == SubSeq(buffer, offset + 1, offset + n)

parseEvent(buffer) ==
    IF ~InBounds(buffer, 0, 8) THEN Threw("RangeError")
    ELSE IF ~InBounds(buffer, 8, 8) THEN Threw("RangeError")
    ELSE IF ~InBounds(buffer, 16, 2) THEN Threw("RangeError")
    ELSE IF ~InBounds(buffer, 18, 2) THEN Threw("RangeError")
    ELSE IF ~InBounds(buffer, 20, 4) THEN Threw("RangeError")
    ELSE Returned([sec   |-> LESigned(Field(buffer, 0, 8)),
                   usec  |-> LESigned(Field(buffer, 8, 8)),
                   type  |-> LEUnsigned(Field(buffer, 16, 2)),
                   code  |-> LEUnsigned(Field(buffer, 18, 2)),
                   value |-> LESigned(Field(buffer, 20, 4))])

\* ------------------------------------------------------------------------
\* device-info.ts: classifier
\* ------------------------------------------------------------------------

\* A string is a sequence of characters.  A capability text, as sysfs prints
\* it, is a sequence of words, most significant first, each word a sequence
\* of hexadecimal digits (0..15) without leading zeros; the empty sequence
\* is a capability file that is missing or empty.

UpperCase == <<"A", "B", "C", "D", "E", "F", "G", "H", "I", "J", "K", "L", "M", "N", "O", "P", "Q", "R", "S", "T", "U", "V", "W", "X", "Y", "Z">>

LowerCase == <<"a", "b", "c", "d", "e", "f", "g", "h", "i", "j", "k", "l", "m", "n", "o", "p", "q", "r", "s", "t", "u", "v", "w", "x", "y", "z">>

toLowerChar(c) ==
    IF \E i \in 1..Len(UpperCase) : UpperCase[i] = c
    THEN LowerCase[CHOOSE i \in 1..Len(UpperCase) : UpperCase[i] = c]
    ELSE c

toLowerCase(str) == [i \in 1..Len(str) |-> toLowerChar(str[i])]

includes(str, sub) ==
    \E i \in 0..(Len(str) - Len(sub)) : SubSeq(str, i + 1, i + Len(sub)) = sub

\* a non-empty string is truthy
Truthy(text) == text # <<>>

\* text.replace(/ /g, ""): the digits of all words, one after the other
RECURSIVE StripSpaces(_)
StripSpaces(text) ==
    IF text = <<>> THEN <<>> ELSE Head(text) \o StripSpaces(Tail(text))

\* bit n of the digit d
DigitBit(d, n) == (d \div (2 ^ n)) % 2 = 1

\* (BigInt("0x" + digits) & (BigInt(1) << BigInt(n))) !== BigInt(0)
BigIntBit(digits, n) ==
    LET k == n \div 4
    IN  k < Len(digits) /\ DigitBit(digits[Len(digits) - k], n % 4)

\* parseInt(text, 16) reads the digits up to the first space; the test
\* (parseInt(text, 16) & (1 << n)) !== 0, for a first word below 2^32
ParseIntBit(text, n) == BigIntBit(Head(text), n)

isTouchpad(info) ==
    LET name == toLowerCase(info.name)
        caps == info.capabilities
    IN  IF includes(name, <<"t", "o", "u", "c", "h", "p", "a", "d">>) \/ includes(name, <<"t", "r", "a", "c", "k", "p", "a", "d">>)
        THEN TRUE
        ELSE IF Truthy(caps.ev) /\ Truthy(caps.abs)
        THEN LET hasAbs == ParseIntBit(caps.ev, EV_ABS)
             IN  IF hasAbs
                 THEN LET absBits   == StripSpaces(caps.abs)
                          hasAbsX   == BigIntBit(absBits, ABS_X)
                          hasAbsY   == BigIntBit(absBits, ABS_Y)
                          hasTouch  == IF Truthy(caps.key)
                                       THEN BigIntBit(StripSpaces(caps.key), BTN_TOUCH)
                                       ELSE FALSE
                          hasFinger == IF Truthy(caps.key)
                                       THEN BigIntBit(StripSpaces(caps.key), BTN_TOOL_FINGER)
                                       ELSE FALSE
                      IN  IF hasAbsX /\ hasAbsY /\ (hasTouch \/ hasFinger)
                          THEN IF \/ includes(name, <<"j", "o", "y", "s", "t", "i", "c", "k">>)
                                  \/ includes(name, <<"g", "a", "m", "e", "p", "a", "d">>)
                                  \/ includes(name, <<"c", "o", "n", "t", "r", "o", "l", "l", "e", "r">>)
                                  \/ includes(name, <<"j", "o", "y">>)
                               THEN FALSE
                               ELSE TRUE
                          ELSE FALSE
                 ELSE FALSE
        ELSE FALSE

isGamepad(info) ==
    LET name == toLowerCase(info.name)
        caps == info.capabilities
    IN  IF \/ includes(name, <<"g", "a", "m", "e", "p", "a", "d">>)
           \/ includes(name, <<"j", "o", "y", "s", "t", "i", "c", "k">>)
           \/ includes(name, <<"c", "o", "n", "t", "r", "o", "l", "l", "e", "r">>)
           \/ includes(name, <<"j", "o", "y">>)
        THEN TRUE
        ELSE IF Truthy(caps.key)
        THEN LET keyBits        == StripSpaces(caps.key)
                 hasJoystickBtn == BigIntBit(keyBits, BTN_JOYSTICK)
                 hasGamepadBtn  == BigIntBit(keyBits, BTN_GAMEPAD)
                 hasABtn        == BigIntBit(keyBits, BTN_GAMEPAD)
             IN  IF hasJoystickBtn \/ hasGamepadBtn \/ hasABtn THEN TRUE ELSE FALSE
        ELSE FALSE

\* ------------------------------------------------------------------------
\* evdev.ts: class EvdevDevice
\* ------------------------------------------------------------------------

\* this.fd = null
NoFd == 0

\* new EvdevDevice(path) with an "event" and an "error" listener registered.
\*   fd, reading, openFlag   the private fields
\*   pending                 fs.read requests whose callback has not run
\*   handles                 descriptors the process holds for this reader
\*   nEvent, nError          calls of the two listeners
\*   raised                  the last method call threw
\* and, for the properties: what was called last (op, err, bytesRead, and
\* wasOpen = isOpen() just before), whether open() ever acquired a
\* descriptor, whether close() was ever called, whether a terminal error
\* (read error or end of file) was met, and how many calls and reads there
\* were.
NewReader ==
    [fd |-> NoFd, reading |-> FALSE, openFlag |-> FALSE, pending |-> 0,
     handles |-> {}, nEvent |-> 0, nError |-> 0, raised |-> FALSE,
     op |-> "new", err |-> FALSE, bytesRead |-> 0, wasOpen |-> FALSE,
     opened |-> FALSE, closed |-> FALSE, terminal |-> FALSE,
     nOpenCalls |-> 0, nCloseCalls |-> 0, nReads |-> 0]

isOpen(r) == r.openFlag /\ r.fd # NoFd /\ r.reading

\* doRead up to fs.read: the request is handed to the thread pool
doRead(r) ==
    IF ~r.reading \/ r.fd = NoFd THEN r
    ELSE [r EXCEPT !.pending = @ + 1]

\* open(); opens = fs.openSync returns a descriptor (it throws otherwise,
\* and open() with it)
open(r, opens) ==
    IF r.fd # NoFd THEN [r EXCEPT !.raised = FALSE]
    ELSE IF ~opens THEN [r EXCEPT !.raised = TRUE]
    ELSE LET fd == FreshId(r.handles)
         IN  doRead([r EXCEPT !.fd = fd, !.handles = @ \cup {fd},
                              !.reading = TRUE, !.openFlag = TRUE,
                              !.raised = FALSE, !.opened = TRUE])

\* close() without the try/catch around fs.closeSync
closeUncaught(r, closes) ==
    IF r.fd # NoFd /\ ~closes
    THEN [r EXCEPT !.reading = FALSE, !.openFlag = FALSE,
                   !.handles = @ \ {r.fd}, !.raised = TRUE]
    ELSE [r EXCEPT !.reading = FALSE, !.openFlag = FALSE,
                   !.handles = @ \ {r.fd}, !.fd = NoFd, !.raised = FALSE]

\* close(); closes = fs.closeSync returns (it throws otherwise, and the
\* error is dropped).  close(2) gives the descriptor up in either case.
close(r, closes) ==
    [r EXCEPT !.reading = FALSE, !.openFlag = FALSE,
              !.handles = @ \ {r.fd}, !.fd = NoFd, !.raised = FALSE]

\* the callback of fs.read that goes on reading after an error
readCallbackKeepReading(r, err, bytesRead) ==
    LET r0 == [r EXCEPT !.pending = @ - 1]
    IN  IF err \/ bytesRead = 0
        THEN doRead([r0 EXCEPT !.openFlag = FALSE, !.nError = @ + 1])
        ELSE IF bytesRead = RecordSize
        THEN doRead([r0 EXCEPT !.nEvent = @ + 1])
        ELSE doRead(r0)

\* the callback of fs.read in doRead
readCallback(r, err, bytesRead) ==
    LET r0 == [r EXCEPT !.pending = @ - 1]
    IN  IF err
        THEN [r0 EXCEPT !.openFlag = FALSE, !.nError = @ + 1]
        ELSE IF bytesRead = 0
        THEN [r0 EXCEPT !.openFlag = FALSE, !.nError = @ + 1]
        ELSE IF bytesRead = RecordSize
        THEN doRead([r0 EXCEPT !.nEvent = @ + 1])
        ELSE doRead(r0)

\* ------------------------------------------------------------------------
\* idle-inhibit.ts: class IdleInhibitor
\* The object with the timers it has set and the subprocesses it waits for.
\* A subprocess in flight carries the command of its callDms and what the
\* caller does when callDms returns: `cont` is "scheduleRelease" for the
\* await in inhibit() and "none" for the one in release().
\* ------------------------------------------------------------------------

\* new IdleInhibitor(options): timeoutId = null, active = false,
\* dmsAvailable = null; nothing has been called
NewIdleInhibitor ==
    [timeoutId |-> NoTimer, active |-> FALSE, dmsAvailable |-> "null",
     timers |-> {}, calls |-> EmptyBag,
     nEnable |-> 0, nDisable |-> 0, nInhibitCalls |-> 0, nReleaseCalls |-> 0]

\* if (this.timeoutId) { clearTimeout(this.timeoutId); this.timeoutId = null; }
classClearTimeout(o) ==
    IF o.timeoutId # NoTimer
    THEN [o EXCEPT !.timers = {t \in @ : t.id # o.timeoutId},
                   !.timeoutId = NoTimer]
    ELSE o

\* private scheduleRelease(): a new timer, stored in timeoutId
classScheduleRelease(o) ==
    LET id == FreshId({t.id : t \in o.timers} \cup {o.timeoutId})
    IN  [o EXCEPT !.timers = @ \cup {[id |-> id, left |-> Duration]},
                  !.timeoutId = id]

\* the code that follows `await this.callDms(command)` in the caller
classResume(o, cont) ==
    IF cont = "scheduleRelease" THEN classScheduleRelease(o) ELSE o

\* spawn("dms", ["ipc", "call", "inhibit", command])
classSpawnDms(o, command, cont) ==
    [o EXCEPT
       !.calls = @ (+) SetToBag({[stage |-> "dms", command |-> command,
                                  cont |-> cont]}),
       !.nEnable = IF command = "enable" THEN @ + 1 ELSE @,
       !.nDisable = IF command = "disable" THEN @ + 1 ELSE @]

\* callDms up to its first subprocess: the probe of checkDmsAvailable
\* unless its result is cached, then the command
classCallDms(o, command, cont) ==
    IF o.dmsAvailable = "null"
    THEN [o EXCEPT !.calls = @ (+) SetToBag({[stage |-> "which",
                                              command |-> command,
                                              cont |-> cont]})]
    ELSE IF o.dmsAvailable = "no"
    THEN classResume(o, cont)
    ELSE classSpawnDms(o, command, cont)

\* inhibit() up to its await
classInhibit(o) ==
    LET c == classClearTimeout(o)
    IN  IF c.active
        THEN classScheduleRelease(c)
        ELSE classCallDms([c EXCEPT !.active = TRUE], "enable", "scheduleRelease")

\* release() up to its await
classRelease(o) ==
    IF ~o.active
    THEN o
    ELSE classCallDms(classClearTimeout([o EXCEPT !.active = FALSE]),
                      "disable", "none")

\* ------------------------------------------------------------------------
\* Initial state: main() has parsed the options, startMonitor has built
\* createInitialMonitorState(options) and has not scanned yet.
\* ------------------------------------------------------------------------

\* what startMonitor has built before the initial scan
Built ==
    /\ phase = "init"
    /\ exitCode = -1
    /\ inhibitor = createInhibitor
    /\ releaseTimeoutId = NoTimer
    /\ devices = <<>>
    /\ intervalActive = FALSE
    /\ timers = {}
    /\ calls = EmptyBag
    /\ backend = [nProbe |-> 0, nInhibit |-> 0, nEnable |-> 0, nDisable |-> 0,
                  nDisableShutdown |-> 0, nDisableAfterInt |-> 0,
                  lastCmd |-> "none"]
    /\ hist = [nEvents |-> 0, sinceFirst |-> 0, sinceLast |-> 0, burst |-> TRUE,
               early |-> FALSE, nSignals |-> 0, intPre |-> FALSE]
    /\ last = [op |-> "none", arg |-> "none", tried |-> <<>>, opened |-> <<>>]
    /\ reader = NewReader
    /\ idleInhibitor = NewIdleInhibitor

\* no call of a pure function is under way
Pending == [state |-> "pending"]

Constructed ==
    /\ Built
    /\ call = [fn |-> "none"]
    /\ result = Pending

Init ==
    /\ options = [touchpadOnly |-> FALSE, gamepadOnly |-> FALSE]
    /\ limits = [events |-> MaxEvents, signals |-> MaxSignals]
    /\ present = {"event0", "event1"}
    /\ dmsInPath \in BOOLEAN
    /\ Constructed

SetLast(op, arg) ==
    last' = [op |-> op, arg |-> arg, tried |-> <<>>, opened |-> <<>>]

\* after a scan: the paths connectDevice was called for, and those it
\* returned a device for, in the order of the loop
SetLastScan(op, arg, r) ==
    last' = [op |-> op, arg |-> arg, tried |-> r.tried, opened |-> r.opened]

Alive == phase \in {"running", "shutdown"}

\* ------------------------------------------------------------------------
\* Actions
\* ------------------------------------------------------------------------

\* startMonitor's test after the initial scan: devices.size === 0
noDevicesFoundNever(devs) == FALSE

noDevicesFound(devs) == DOMAIN devs = {}

\* startMonitor: the initial scan, the exit when nothing was opened,
\* setInterval and the signal handlers
StartMonitor ==
    /\ phase = "init"
    /\ \E ok \in SUBSET Attempts(devices, options, present) :
         LET r == scanAndConnectDevices(devices, options, present, ok)
         IN  /\ devices' = r.devices
             /\ IF noDevicesFound(r.devices)
                THEN /\ phase' = "exited"
                     /\ exitCode' = 1
                     /\ intervalActive' = FALSE
                     /\ SetLastScan("startMonitor", "exit", r)
                ELSE /\ phase' = "running"
                     /\ exitCode' = exitCode
                     /\ intervalActive' = TRUE
                     /\ SetLastScan("startMonitor", "running", r)
    /\ UNCHANGED <<env, pure, inhibitor, releaseTimeoutId, timers, calls, backend,
                   hist>>

\* monitorState.current as a callback finds it: the device map and the part
\* the controller works on
Turn == [devices |-> devices, ctrl |-> Cur]

\* a setInterval callback that writes back the inhibitor and the timer slot
\* as they were when the monitor started
rescanCallbackStale(m, ok) ==
    [devices |-> cleanupDisconnectedDevices(
                     scanAndConnectDevices(m.devices, options, present, ok).devices),
     ctrl |-> [m.ctrl EXCEPT !.inhibitor = createInhibitor,
                             !.releaseTimeoutId = NoTimer]]

\* the body of the setInterval callback: monitorState.current is replaced by
\* a copy with the new device map, every other field as it is
rescanCallback(m, ok) ==
    [m EXCEPT !.devices = cleanupDisconnectedDevices(
                  scanAndConnectDevices(m.devices, options, present, ok).devices)]

\* the body of the setTimeout callback t of scheduleRelease, up to the first
\* await of release
releaseCallback(m, t) ==
    [m EXCEPT !.ctrl = release([m.ctrl EXCEPT !.timers = @ \ {t}],
                               m.ctrl.inhibitor, "timer")]

\* the setInterval callback: rescan, then prune
ScanTick ==
    /\ phase = "running"
    /\ intervalActive
    /\ \E ok \in SUBSET Attempts(devices, options, present) :
         LET r == scanAndConnectDevices(devices, options, present, ok)
         IN  /\ devices' = rescanCallback(Turn, ok).devices
             /\ SetLastScan("scan", IF DOMAIN r.devices # DOMAIN devices
                                     THEN "hotplug" ELSE "same", r)
             /\ Commit(rescanCallback(Turn, ok).ctrl)
    /\ UNCHANGED <<env, pure, intervalActive, hist>>

\* onDeviceError that drops the copy of the map it has edited
DeviceErrorNoRemove(p) ==
    /\ Alive
    /\ p \in DOMAIN devices
    /\ isDeviceOpen(devices[p])
    /\ devices' = devices
    /\ SetLast("deviceError", "none")
    /\ UNCHANGED <<env, pure, phase, exitCode, inhibitor, releaseTimeoutId,
                   intervalActive, timers, calls, backend, hist>>

\* a tracked reader reports a terminal error: onDeviceError(path)
DeviceError(p) ==
    /\ Alive
    /\ p \in DOMAIN devices
    /\ isDeviceOpen(devices[p])
    /\ devices' = [q \in DOMAIN devices \ {p} |-> devices[q]]
    /\ SetLast("deviceError", "none")
    /\ UNCHANGED <<env, pure, phase, exitCode, inhibitor, releaseTimeoutId,
                   intervalActive, timers, calls, backend, hist>>

Min(a, b) == IF a < b THEN a ELSE b

\* a tracked reader delivers one decoded event: onInput(deviceName, event)
OnInput(p, type) ==
    /\ Alive
    /\ p \in DOMAIN devices
    /\ isDeviceOpen(devices[p])
    /\ p \in present
    /\ handleInput(type) => hist.nEvents < limits.events
    /\ IF ~handleInput(type)
       THEN /\ Commit(Cur)
            /\ hist' = hist
       ELSE /\ IF inhibitor.active
               THEN Commit(scheduleRelease(Cur, Duration))
               ELSE Commit(inhibit([Cur EXCEPT !.inhibitor.active = TRUE],
                                   [inhibitor EXCEPT !.active = TRUE], "input"))
            /\ hist' = [hist EXCEPT
                          !.nEvents = @ + 1,
                          !.sinceFirst = IF hist.nEvents = 0 THEN 0 ELSE @,
                          !.sinceLast = 0,
                          !.burst = @ /\ (hist.nEvents = 0 \/ hist.sinceFirst < Duration)]
    /\ SetLast("onInput",
               IF type = EV_SYN THEN "syn"
               ELSE IF ~inhibitor.active THEN "inhibit"
               ELSE IF \E t \in timers : t.id = releaseTimeoutId THEN "replace"
               ELSE "reschedule")
    /\ UNCHANGED <<env, pure, devices, intervalActive>>

\* one unit of time passes; no timer is overdue
Tick ==
    /\ Alive
    /\ \A t \in timers : t.left > 0
    /\ timers' = {[t EXCEPT !.left = @ - 1] : t \in timers}
    /\ hist' = IF hist.nEvents = 0 THEN hist
                ELSE [hist EXCEPT !.sinceFirst = Min(@ + 1, Duration),
                                  !.sinceLast = Min(@ + 1, Duration)]
    /\ SetLast("other", "none")
    /\ UNCHANGED <<env, pure, phase, exitCode, inhibitor, releaseTimeoutId,
                   devices, intervalActive, calls, backend>>

\* the setTimeout callback of scheduleRelease
TimerFire(t) ==
    /\ Alive
    /\ t \in timers
    /\ t.left = 0
    /\ Commit(releaseCallback(Turn, t).ctrl)
    /\ devices' = releaseCallback(Turn, t).devices
    /\ hist' = hist
    /\ SetLast("timerFire", IF calls' = calls THEN "noop" ELSE "disable")
    /\ UNCHANGED <<env, pure, intervalActive>>

\* `which dms` exits: callDms goes on to spawn dms, or returns
ProbeExit(c) ==
    /\ Alive
    /\ BagIn(c, calls)
    /\ c.stage = "which"
    /\ LET s0 == [Cur EXCEPT !.calls = @ (-) SetToBag({c})]
       IN  IF dmsInPath
           THEN Commit(spawnDms(s0, c.cmd, c.origin, c.ret, c.seq))
           ELSE Commit(Resume(s0, c.origin, c.ret))
    /\ hist' = [hist EXCEPT
                  !.early = @ \/ (dmsInPath /\ c.cmd = "disable"
                                  /\ hist.sinceLast < Duration)]
    /\ SetLast("other", "none")
    /\ UNCHANGED <<env, pure, devices, intervalActive>>

\* `dms ipc call inhibit <command>` exits (or fails to launch)
DmsExit(c) ==
    /\ Alive
    /\ BagIn(c, calls)
    /\ c.stage = "dms"
    /\ Commit(Resume([Cur EXCEPT !.calls = @ (-) SetToBag({c})], c.origin, c.ret))
    /\ hist' = hist
    /\ SetLast("other", "none")
    /\ UNCHANGED <<env, pure, devices, intervalActive>>

\* SIGINT / SIGTERM: shutdown()
Shutdown ==
    /\ Alive
    /\ hist.nSignals < limits.signals
    /\ intervalActive' = FALSE
    /\ devices' = [p \in DOMAIN devices |-> closeDevice(devices[p])]
    /\ LET s1 == clearReleaseTimeout([Cur EXCEPT !.phase = "shutdown"])
       IN  Commit(release(s1, s1.inhibitor, "shutdown"))
    /\ hist' = [hist EXCEPT
                  !.nSignals = @ + 1,
                  !.intPre = IF hist.nSignals = 0
                             THEN inhibitor.active
                                  /\ \E t \in timers : t.id = releaseTimeoutId
                             ELSE @]
    /\ SetLast("shutdown", IF calls' = calls THEN "noop" ELSE "disable")
    /\ UNCHANGED <<env, pure>>

Next ==
    \/ StartMonitor
    \/ ScanTick
    \/ \E p \in Paths : DeviceError(p)
    \/ \E p \in Paths, type \in EventTypes : OnInput(p, type)
    \/ Tick
    \/ \E t \in timers : TimerFire(t)
    \/ \E c \in BagToSet(calls) : ProbeExit(c)
    \/ \E c \in BagToSet(calls) : DmsExit(c)
    \/ Shutdown

Spec == Init /\ [][Next]_vars

\* ------------------------------------------------------------------------
\* Scanning and hotplug: any combination of the two filter flags, device
\* nodes that come and go, few events
\* ------------------------------------------------------------------------

ScanInit ==
    /\ options \in [touchpadOnly : BOOLEAN, gamepadOnly : BOOLEAN]
    /\ limits = [events |-> ScanEvents, signals |-> ScanSignals]
    /\ present = {"event0", "event2"}
    /\ dmsInPath = TRUE
    /\ Constructed

\* a device node appears under /sys/class/input
Plug(p) ==
    /\ phase = "running"
    /\ p \notin present
    /\ present' = present \cup {p}
    /\ SetLast("env", "plug")
    /\ UNCHANGED <<options, limits, dmsInPath, pure, phase, exitCode, inhibitor,
                   releaseTimeoutId, devices, intervalActive, timers, calls,
                   backend, hist>>

\* a device node disappears; its reader, if any, reports the error later
Unplug(p) ==
    /\ phase = "running"
    /\ p \in present
    /\ present' = present \ {p}
    /\ SetLast("env", "unplug")
    /\ UNCHANGED <<options, limits, dmsInPath, pure, phase, exitCode, inhibitor,
                   releaseTimeoutId, devices, intervalActive, timers, calls,
                   backend, hist>>

ScanNext ==
    \/ Next
    \/ \E p \in Paths : Plug(p)
    \/ \E p \in Paths : Unplug(p)

ScanSpec == ScanInit /\ [][ScanNext]_vars

\* ------------------------------------------------------------------------
\* The pure functions on their own: one call of parseEvent, isTouchpad or
\* isGamepad on an argument drawn from the sets below
\* ------------------------------------------------------------------------

\* the bytes of the number v in n bytes, least significant first
RECURSIVE encodeLE(_, _)
encodeLE(v, n) ==
    IF n = 0 THEN <<>> ELSE <<v % 256>> \o encodeLE(v \div 256, n - 1)

\* the bytes the kernel writes for one struct input_event
Record(sec, usec, type, code, value) ==
    encodeLE(sec, 8) \o encodeLE(usec, 8) \o encodeLE(type, 2)
        \o encodeLE(code, 2) \o encodeLE(value, 4)

Records ==
    { Record(1, 2, EV_ABS, ABS_X, 100),
      Record(0, 0, EV_SYN, 0, 0),
      Record(70000, 999999, 1, BTN_TOUCH, -1) }

\* a read that returned n bytes: a record cut short, or followed by zeros
Resize(rec, n) ==
    IF n <= Len(rec) THEN SubSeq(rec, 1, n)
    ELSE rec \o [i \in 1..(n - Len(rec)) |-> 0]

Buffers == { Resize(rec, n) : rec \in Records, n \in 0..MaxBufLen }

NameSynaptics == <<"S", "y", "n", "a", "p", "t", "i", "c", "s", " ", "T", "o", "u", "c", "h", "P", "a", "d">>

NameTrackpad == <<"M", "a", "g", "i", "c", " ", "T", "r", "a", "c", "k", "p", "a", "d">>

NameElan == <<"E", "L", "A", "N", "0", "5", "0", "1">>

NameXbox == <<"X", "b", "o", "x", " ", "W", "i", "r", "e", "l", "e", "s", "s", " ", "C", "o", "n", "t", "r", "o", "l", "l", "e", "r">>

NameJoystick == <<"L", "o", "g", "i", "t", "e", "c", "h", " ", "J", "o", "y", "s", "t", "i", "c", "k">>

NamePro == <<"8", "B", "i", "t", "D", "o", " ", "P", "r", "o">>

NameGamepad == <<"D", "u", "a", "l", "S", "e", "n", "s", "e", " ", "G", "a", "m", "e", "p", "a", "d">>

\* the last one is a device whose name file is missing
Names == {NameSynaptics, NameTrackpad, NameElan, NameXbox, NameJoystick, NamePro, NameGamepad, <<>>}

\* capabilities/ev: EV_SYN EV_KEY EV_ABS; EV_SYN EV_KEY; EV_SYN EV_KEY
\* EV_ABS EV_MSC; or no file
EvTexts == {<<<<11>>>>, <<<<3>>>>, <<<<1, 11>>>>, <<>>}

\* capabilities/abs: ABS_X ABS_Y; ABS_X only; a multi-touch surface; no file
AbsTexts == {<<<<3>>>>, <<<<1>>>>, <<<<2, 14, 0, 8, 0, 0, 0, 0, 0, 0, 0, 0, 0, 0, 3>>>>, <<>>}

\* capabilities/key of a touchpad: BTN_LEFT, BTN_TOOL_FINGER, BTN_TOUCH and the multi-finger taps
KeyTouchpad ==
    <<<<14, 5, 2, 0>>, <<1, 0, 0, 0, 0>>, <<0>>, <<0>>, <<0>>, <<0>>>>

\* capabilities/key of a gamepad: BTN_SOUTH (0x130) and the other pad buttons
KeyGamepad ==
    <<<<7, 12, 13, 11, 0, 0, 0, 0, 0, 0, 0, 0, 0, 0, 0, 0>>, <<0>>, <<0>>, <<0>>, <<0>>>>

\* capabilities/key of a joystick: BTN_JOYSTICK (0x120) only
KeyJoystick ==
    <<<<1, 0, 0, 0, 0, 0, 0, 0, 0>>, <<0>>, <<0>>, <<0>>, <<0>>>>

\* capabilities/key of the touchpad mask with every lower word written in full
KeyTouchpadPadded ==
    <<<<14, 5, 2, 0>>, <<0, 0, 0, 0, 0, 0, 0, 0, 0, 0, 0, 1, 0, 0, 0, 0>>, <<0, 0, 0, 0, 0, 0, 0, 0, 0, 0, 0, 0, 0, 0, 0, 0>>, <<0, 0, 0, 0, 0, 0, 0, 0, 0, 0, 0, 0, 0, 0, 0, 0>>, <<0, 0, 0, 0, 0, 0, 0, 0, 0, 0, 0, 0, 0, 0, 0, 0>>, <<0, 0, 0, 0, 0, 0, 0, 0, 0, 0, 0, 0, 0, 0, 0, 0>>>>

\* capabilities/key of the gamepad mask with every lower word written in full
KeyGamepadPadded ==
    <<<<7, 12, 13, 11, 0, 0, 0, 0, 0, 0, 0, 0, 0, 0, 0, 0>>, <<0, 0, 0, 0, 0, 0, 0, 0, 0, 0, 0, 0, 0, 0, 0, 0>>, <<0, 0, 0, 0, 0, 0, 0, 0, 0, 0, 0, 0, 0, 0, 0, 0>>, <<0, 0, 0, 0, 0, 0, 0, 0, 0, 0, 0, 0, 0, 0, 0, 0>>, <<0, 0, 0, 0, 0, 0, 0, 0, 0, 0, 0, 0, 0, 0, 0, 0>>>>

\* capabilities/key of a mouse: BTN_LEFT, BTN_RIGHT, BTN_MIDDLE
KeyMouse ==
    <<<<7, 0, 0, 0, 0>>, <<0>>, <<0>>, <<0>>, <<0>>>>

KeyTexts == {KeyTouchpad, KeyGamepad, KeyJoystick, KeyTouchpadPadded, KeyGamepadPadded, KeyMouse, <<>>}

DeviceInfos ==
    [name : Names, capabilities : [ev : EvTexts, abs : AbsTexts, key : KeyTexts]]

\* the capability texts the classifier builds a BigInt from (it skips a
\* missing file), and the bit numbers tested on them
MaskTexts == (AbsTexts \cup KeyTexts) \ {<<>>}

BitNumbers == 0..BTN_TOUCH

PureInit ==
    /\ options = [touchpadOnly |-> FALSE, gamepadOnly |-> FALSE]
    /\ limits = [events |-> ScanEvents, signals |-> ScanSignals]
    /\ present = {}
    /\ dmsInPath = TRUE
    /\ Built
    /\ call \in { [fn |-> "parseEvent", buffer |-> b] : b \in Buffers }
               \cup { [fn |-> "isTouchpad", info |-> i] : i \in DeviceInfos }
               \cup { [fn |-> "isGamepad", info |-> i] : i \in DeviceInfos }
               \cup { [fn |-> "testBit", text |-> t, n |-> n] :
                         t \in MaskTexts, n \in BitNumbers }
    /\ result = Pending

ParseEvent ==
    /\ call.fn = "parseEvent"
    /\ result = Pending
    /\ result' = parseEvent(call.buffer)
    /\ UNCHANGED <<env, phase, exitCode, inhibitor, releaseTimeoutId, devices,
                   intervalActive, timers, calls, backend, hist, last, call,
                   reader, idleInhibitor>>

IsTouchpad ==
    /\ call.fn = "isTouchpad"
    /\ result = Pending
    /\ result' = Returned(isTouchpad(call.info))
    /\ UNCHANGED <<env, phase, exitCode, inhibitor, releaseTimeoutId, devices,
                   intervalActive, timers, calls, backend, hist, last, call,
                   reader, idleInhibitor>>

IsGamepad ==
    /\ call.fn = "isGamepad"
    /\ result = Pending
    /\ result' = Returned(isGamepad(call.info))
    /\ UNCHANGED <<env, phase, exitCode, inhibitor, releaseTimeoutId, devices,
                   intervalActive, timers, calls, backend, hist, last, call,
                   reader, idleInhibitor>>

\* the bit test both classifiers apply to a capability text:
\* (BigInt("0x" + text.replace(/ /g, "")) & (BigInt(1) << BigInt(n))) !== BigInt(0)
TestBit ==
    /\ call.fn = "testBit"
    /\ result = Pending
    /\ result' = Returned(BigIntBit(StripSpaces(call.text), call.n))
    /\ UNCHANGED <<env, phase, exitCode, inhibitor, releaseTimeoutId, devices,
                   intervalActive, timers, calls, backend, hist, last, call,
                   reader, idleInhibitor>>

PureNext == ParseEvent \/ IsTouchpad \/ IsGamepad \/ TestBit

PureSpec == PureInit /\ [][PureNext]_vars

\* ------------------------------------------------------------------------
\* One reader on its own: open(), close() and the completion of its reads.
\* A reader is opened once: connectDevice makes a new one for every attempt
\* and nothing opens a reader again after close().
\* ------------------------------------------------------------------------

\* what a read that completes without error can return
BytesRead == {0, 1, RecordSize - 1, RecordSize}

Called(r, op, err, bytesRead) ==
    [r EXCEPT !.op = op, !.err = err, !.bytesRead = bytesRead,
              !.wasOpen = isOpen(reader)]

ReaderInit ==
    /\ options = [touchpadOnly |-> FALSE, gamepadOnly |-> FALSE]
    /\ limits = [events |-> ScanEvents, signals |-> ScanSignals]
    /\ present = {}
    /\ dmsInPath = TRUE
    /\ Constructed

ReaderOpen(opens) ==
    /\ reader.nOpenCalls < MaxOpenCalls
    /\ ~reader.closed
    /\ reader' = [Called(open(reader, opens), "open", FALSE, 0)
                     EXCEPT !.nOpenCalls = @ + 1]
    /\ UNCHANGED <<env, phase, exitCode, inhibitor, releaseTimeoutId, devices,
                   intervalActive, timers, calls, backend, hist, last, call,
                   result, idleInhibitor>>

ReaderClose(closes) ==
    /\ reader.nCloseCalls < MaxCloseCalls
    /\ reader' = [Called(close(reader, closes), "close", FALSE, 0)
                     EXCEPT !.nCloseCalls = @ + 1, !.closed = TRUE]
    /\ UNCHANGED <<env, phase, exitCode, inhibitor, releaseTimeoutId, devices,
                   intervalActive, timers, calls, backend, hist, last, call,
                   result, idleInhibitor>>

\* a read completes: with an error, or with bytesRead bytes
ReadDone(err, bytesRead) ==
    /\ reader.pending > 0
    /\ reader.nReads < MaxReads
    /\ reader' = [Called(readCallback(reader, err, bytesRead), "read", err, bytesRead)
                     EXCEPT !.nReads = @ + 1,
                            !.terminal = @ \/ (isOpen(reader) /\ (err \/ bytesRead = 0))]
    /\ UNCHANGED <<env, phase, exitCode, inhibitor, releaseTimeoutId, devices,
                   intervalActive, timers, calls, backend, hist, last, call,
                   result, idleInhibitor>>

ReaderNext ==
    \/ \E opens \in BOOLEAN : ReaderOpen(opens)
    \/ \E closes \in BOOLEAN : ReaderClose(closes)
    \/ \E bytesRead \in BytesRead : ReadDone(FALSE, bytesRead)
    \/ ReadDone(TRUE, 0)

ReaderSpec == ReaderInit /\ [][ReaderNext]_vars

\* ------------------------------------------------------------------------
\* One IdleInhibitor object on its own: a caller that calls inhibit() and
\* release() at any time, the timers of the object, its subprocesses.
\* ------------------------------------------------------------------------

InhibitorInit ==
    /\ options = [touchpadOnly |-> FALSE, gamepadOnly |-> FALSE]
    /\ limits = [events |-> ScanEvents, signals |-> ScanSignals]
    /\ present = {}
    /\ dmsInPath \in BOOLEAN
    /\ Constructed

CallInhibit ==
    /\ idleInhibitor.nInhibitCalls < MaxInhibitCalls
    /\ idleInhibitor' = [classInhibit(idleInhibitor)
                            EXCEPT !.nInhibitCalls = @ + 1]
    /\ UNCHANGED <<env, phase, exitCode, inhibitor, releaseTimeoutId, devices,
                   intervalActive, timers, calls, backend, hist, last, call,
                   result, reader>>

CallRelease ==
    /\ idleInhibitor.nReleaseCalls < MaxReleaseCalls
    /\ idleInhibitor' = [classRelease(idleInhibitor)
                            EXCEPT !.nReleaseCalls = @ + 1]
    /\ UNCHANGED <<env, phase, exitCode, inhibitor, releaseTimeoutId, devices,
                   intervalActive, timers, calls, backend, hist, last, call,
                   result, reader>>

\* one unit of time passes; no timer is overdue
InhibitorTick ==
    /\ idleInhibitor.timers # {}
    /\ \A t \in idleInhibitor.timers : t.left > 0
    /\ idleInhibitor' = [idleInhibitor EXCEPT
                            !.timers = {[t EXCEPT !.left = @ - 1] : t \in @}]
    /\ UNCHANGED <<env, phase, exitCode, inhibitor, releaseTimeoutId, devices,
                   intervalActive, timers, calls, backend, hist, last, call,
                   result, reader>>

\* the setTimeout callback of scheduleRelease: this.release()
InhibitorTimerFire(t) ==
    /\ t \in idleInhibitor.timers
    /\ t.left = 0
    /\ idleInhibitor' = classRelease([idleInhibitor EXCEPT !.timers = @ \ {t}])
    /\ UNCHANGED <<env, phase, exitCode, inhibitor, releaseTimeoutId, devices,
                   intervalActive, timers, calls, backend, hist, last, call,
                   result, reader>>

\* `which dms` exits: dmsAvailable is set, callDms goes on or returns
InhibitorProbeExit(c) ==
    /\ BagIn(c, idleInhibitor.calls)
    /\ c.stage = "which"
    /\ LET o == [idleInhibitor EXCEPT
                    !.calls = @ (-) SetToBag({c}),
                    !.dmsAvailable = IF dmsInPath THEN "yes" ELSE "no"]
       IN  idleInhibitor' = IF dmsInPath
                            THEN classSpawnDms(o, c.command, c.cont)
                            ELSE classResume(o, c.cont)
    /\ UNCHANGED <<env, phase, exitCode, inhibitor, releaseTimeoutId, devices,
                   intervalActive, timers, calls, backend, hist, last, call,
                   result, reader>>

\* `dms ipc call inhibit <command>` exits: callDms resolves
InhibitorDmsExit(c) ==
    /\ BagIn(c, idleInhibitor.calls)
    /\ c.stage = "dms"
    /\ idleInhibitor' = classResume([idleInhibitor EXCEPT
                                       !.calls = @ (-) SetToBag({c})], c.cont)
    /\ UNCHANGED <<env, phase, exitCode, inhibitor, releaseTimeoutId, devices,
                   intervalActive, timers, calls, backend, hist, last, call,
                   result, reader>>

InhibitorNext ==
    \/ CallInhibit
    \/ CallRelease
    \/ InhibitorTick
    \/ \E t \in idleInhibitor.timers : InhibitorTimerFire(t)
    \/ \E c \in BagToSet(idleInhibitor.calls) : InhibitorProbeExit(c)
    \/ \E c \in BagToSet(idleInhibitor.calls) : InhibitorDmsExit(c)

InhibitorSpec == InhibitorInit /\ [][InhibitorNext]_vars

\* ------------------------------------------------------------------------
\* One device path with the readers made for it and its entry in the
\* tracked set.  `reader` is the reader connectDevice made last for the
\* path; reader.handles are the descriptors open on the device node, those
\* of earlier readers included.  An entry of `devices` here is the device
\* without its reader, which is the variable `reader`.
\* ------------------------------------------------------------------------

TrackedPath == "event0"

TrackInit ==
    /\ options = [touchpadOnly |-> FALSE, gamepadOnly |-> FALSE]
    /\ limits = [events |-> ScanEvents, signals |-> ScanSignals]
    /\ present = {TrackedPath}
    /\ dmsInPath = TRUE
    /\ Constructed

\* connectDevice: a new reader for the path and open() on it; the device
\* is returned unless open() threw
trackConnect(r, opens) ==
    LET fresh == [NewReader EXCEPT !.handles = r.handles,
                                   !.nOpenCalls = r.nOpenCalls + 1,
                                   !.nCloseCalls = r.nCloseCalls,
                                   !.nReads = r.nReads]
    IN  [open(fresh, opens) EXCEPT !.op = "open"]

\* scanAndConnectDevices for the one path: connectDevice unless the path is
\* tracked, the device stored when one is returned
trackScan(m, opens) ==
    IF TrackedPath \in DOMAIN m.devices
    THEN m
    ELSE LET r == trackConnect(m.reader, opens)
         IN  [devices |-> IF r.raised THEN m.devices
                          ELSE (TrackedPath :> [type |-> "touchpad"]) @@ m.devices,
              reader |-> r]

\* cleanupDisconnectedDevices: the entries whose reader says isOpen()
trackCleanup(m) ==
    [m EXCEPT !.devices = [p \in {q \in DOMAIN m.devices : isOpen(m.reader)}
                              |-> m.devices[p]]]

\* onDeviceError(path): the entry is deleted from the map
trackDeviceError(devs, path) ==
    [q \in DOMAIN devs \ {path} |-> devs[q]]

TrackNow == [devices |-> devices, reader |-> reader]

\* startMonitor: the initial scan, exit(1) when nothing was opened
TrackStart(opens) ==
    /\ phase = "init"
    /\ reader.nOpenCalls < MaxOpenCalls
    /\ devices' = trackScan(TrackNow, opens).devices
    /\ reader' = trackScan(TrackNow, opens).reader
    /\ phase' = IF noDevicesFound(devices') THEN "exited" ELSE "running"
    /\ exitCode' = IF noDevicesFound(devices') THEN 1 ELSE exitCode
    /\ UNCHANGED <<env, inhibitor, releaseTimeoutId, intervalActive, timers,
                   calls, backend, hist, last, call, result, idleInhibitor>>

\* the setInterval callback: rescan, then prune
TrackRescan(opens) ==
    /\ phase = "running"
    /\ TrackedPath \notin DOMAIN devices => reader.nOpenCalls < MaxOpenCalls
    /\ devices' = trackCleanup(trackScan(TrackNow, opens)).devices
    /\ reader' = trackCleanup(trackScan(TrackNow, opens)).reader
    /\ UNCHANGED <<env, phase, exitCode, inhibitor, releaseTimeoutId,
                   intervalActive, timers, calls, backend, hist, last, call,
                   result, idleInhibitor>>

\* a read of the reader completes; its error listener is onDeviceError
TrackReadDone(err, bytesRead) ==
    /\ Alive
    /\ reader.pending > 0
    /\ reader.nReads < MaxReads
    /\ reader' = [readCallback(reader, err, bytesRead)
                     EXCEPT !.op = "read", !.err = err, !.bytesRead = bytesRead,
                            !.wasOpen = isOpen(reader), !.nReads = @ + 1,
                            !.terminal = @ \/ (isOpen(reader) /\ (err \/ bytesRead = 0))]
    /\ devices' = IF reader'.nError > reader.nError
                  THEN trackDeviceError(devices, TrackedPath)
                  ELSE devices
    /\ UNCHANGED <<env, phase, exitCode, inhibitor, releaseTimeoutId,
                   intervalActive, timers, calls, backend, hist, last, call,
                   result, idleInhibitor>>

\* shutdown(): the reader of every tracked device is closed
TrackShutdown(closes) ==
    /\ phase = "running"
    /\ phase' = "shutdown"
    /\ reader' = IF TrackedPath \in DOMAIN devices
                 THEN [close(reader, closes)
                          EXCEPT !.op = "close", !.wasOpen = isOpen(reader),
                                 !.nCloseCalls = @ + 1, !.closed = TRUE]
                 ELSE reader
    /\ UNCHANGED <<env, exitCode, inhibitor, releaseTimeoutId, devices,
                   intervalActive, timers, calls, backend, hist, last, call,
                   result, idleInhibitor>>

TrackNext ==
    \/ \E opens \in BOOLEAN : TrackStart(opens)
    \/ \E opens \in BOOLEAN : TrackRescan(opens)
    \/ \E bytesRead \in BytesRead : TrackReadDone(FALSE, bytesRead)
    \/ TrackReadDone(TRUE, 0)
    \/ \E closes \in BOOLEAN : TrackShutdown(closes)

TrackSpec == TrackInit /\ [][TrackNext]_vars

\* The event loop runs every timer that is due and every continuation whose
\* subprocess has exited; time passes; every subprocess exits.
FairSpec ==
    /\ Spec
    /\ WF_vars(Tick)
    /\ WF_vars(\E t \in timers : TimerFire(t))
    /\ WF_vars(\E c \in BagToSet(calls) : ProbeExit(c))
    /\ WF_vars(\E c \in BagToSet(calls) : DmsExit(c))

\* ------------------------------------------------------------------------
\* Properties
\* ------------------------------------------------------------------------

\* no timer is pending and no subprocess is in flight: nothing happens any
\* more unless a device delivers an event or a signal arrives
Quiescent == timers = {} /\ calls = EmptyBag

\* C1 (debounce): with the backend installed and no signal, as long as every
\* activity event so far arrived strictly before the duration had elapsed
\* since the first one, at most one enable and at most one disable have been
\* invoked, no disable was invoked before the duration had elapsed since the
\* last event, and once the monitor is at rest exactly one enable and exactly
\* one disable have been invoked.
C1_Debounce ==
    (phase = "running" /\ dmsInPath /\ hist.nEvents >= 1 /\ hist.burst) =>
        /\ backend.nEnable <= 1
        /\ backend.nDisable <= 1
        /\ ~hist.early
        /\ Quiescent => (backend.nEnable = 1 /\ backend.nDisable = 1)

\* the enable call started by the first activity event has not completed
FirstEnableInFlight ==
    \E c \in BagToSet(calls) : c.cmd = "enable" /\ c.seq = 1

\* C2 (no duplicate enable): while the first enable call is still in flight,
\* however many activity events have been handled, the backend has been sent
\* at most one enable.
C2_NoDuplicateEnable == FirstEnableInFlight => backend.nEnable <= 1

\* C3 (single release timer): at most one release timer is pending.
C3_AtMostOneReleaseTimer == Cardinality(timers) <= 1

C5_AutoRelease ==
    /\ (backend.lastCmd = "enable") ~> (backend.lastCmd = "disable" \/ phase = "exited")
    /\ <>[](phase = "running" => ~inhibitor.active)

\* C6 (SYN filtering): handling an EV_SYN event changes neither the
\* inhibitor nor the timer slot nor the pending timers, starts no subprocess
\* and asks the backend nothing.
C6_SynIgnored ==
    [][ (last'.op = "onInput" /\ last'.arg = "syn") =>
           UNCHANGED <<inhibitor, releaseTimeoutId, timers, calls, backend>> ]_vars

\* C6 witness: an EV_SYN event was handled and it is the only event so far.
C6_Witness ==
    /\ last.op = "onInput" /\ last.arg = "syn"
    /\ hist.nEvents = 0
    /\ backend.nProbe = 0

\* C7 (idempotent disable): release called while inhibitor.active is false
\* (by the release timer or by shutdown) runs no probe, sends the backend
\* nothing, starts no subprocess and leaves the inhibitor as it is.
C7_ReleaseNoopWhenInactive ==
    [][ (last'.op \in {"timerFire", "shutdown"} /\ ~inhibitor.active) =>
           /\ backend' = backend
           /\ inhibitor' = inhibitor
           /\ calls' \sqsubseteq calls ]_vars

\* C7 witness: a release timer fired while inhibitor.active was false.
C7_Witness == last.op = "timerFire" /\ last.arg = "noop"

\* C8 (shutdown): after one signal that arrived while inhibition was active
\* and the release timer was pending (backend installed): when the handler
\* has run, the scan interval is cancelled, the timer slot is empty and every
\* tracked reader is closed; from the signal on at most one disable is sent
\* to the backend, and exactly one has been sent when the process has
\* exited.
C8_ShutdownOneDisable ==
    (hist.nSignals = 1 /\ hist.intPre /\ dmsInPath) =>
        /\ last.op = "shutdown" =>
              /\ ~intervalActive
              /\ releaseTimeoutId = NoTimer
              /\ \A p \in DOMAIN devices : ~isDeviceOpen(devices[p])
        /\ backend.nDisableAfterInt <= 1
        /\ phase = "exited" => backend.nDisableAfterInt = 1

\* C9 (idempotent shutdown): however many signals arrive, the shutdown
\* handler sends the backend at most one disable, as a single shutdown does.
C9_ShutdownIdempotent == backend.nDisableShutdown <= 1

\* C10 (probe caching): `which dms` is run at most once in the life of the
\* process.
C10_ProbeAtMostOnce == backend.nProbe <= 1

\* C11 (soft backend failure): whenever an inhibit or release call returns
\* to the orchestrator, whether the backend was missing, could not be
\* launched or exited with any status, the code after the await runs: after
\* inhibit the inhibitor is active and the release timer is set for the full
\* duration, after a timer's release the inhibitor is inactive, after
\* shutdown's release the process exits with status 0.
C11_SoftFailure ==
    [][ (last'.op = "other" /\ calls' # calls /\ calls' \sqsubseteq calls) =>
           IF phase' = "exited" THEN exitCode' = 0
           ELSE \A c \in BagToSet(calls) :
                   CopiesIn(c, calls') < CopiesIn(c, calls) =>
                      /\ c.origin # "shutdown"
                      /\ c.origin = "input" =>
                            /\ inhibitor'.active
                            /\ [id |-> releaseTimeoutId', left |-> Duration] \in timers'
                      /\ c.origin = "timer" => ~inhibitor'.active ]_vars

\* C11 witness: the backend is missing, the enable call has just returned,
\* nothing was sent to the backend, and the release timer is set.
C11_Witness ==
    /\ ~dmsInPath
    /\ last.op = "other"
    /\ backend.nProbe = 1 /\ backend.nEnable = 0
    /\ calls = EmptyBag
    /\ inhibitor.active
    /\ [id |-> releaseTimeoutId, left |-> Duration] \in timers

\* the step is a scan (the initial one or a periodic one)
ScanStep == last'.op \in {"startMonitor", "scan"} /\ (phase = "init" \/ intervalActive)

\* C12 (one entry per path): a scan calls connectDevice only for paths that
\* are not tracked, and opens no path twice, also when the list names a path
\* twice; so no entry of the collection is ever replaced by a second reader
\* for its path.
C12_UniquePerPath ==
    [][ ScanStep =>
           /\ \A i \in 1..Len(last'.tried) : last'.tried[i] \notin DOMAIN devices
           /\ \A i, j \in 1..Len(last'.opened) :
                  i # j => last'.opened[i] # last'.opened[j]
           /\ \A p \in DOMAIN devices \cap DOMAIN devices' :
                  devices'[p] = devices[p] ]_vars

\* C12 witness: a rescan listed the hybrid device twice; its first open
\* failed, the second succeeded, and it is tracked once.
C12_Witness ==
    /\ last.op = "scan"
    /\ last.tried = <<"event1", "event1">>
    /\ last.opened = <<"event1">>
    /\ "event1" \in DOMAIN devices

NoBackendCall ==
    /\ backend.nProbe = 0 /\ backend.nInhibit = 0
    /\ backend.nEnable = 0 /\ backend.nDisable = 0
    /\ calls = EmptyBag

\* C14 (no devices at startup): if the initial scan leaves no device
\* tracked, the process exits with status 1, the scan interval is not
\* started and the backend has been asked nothing; otherwise the monitor
\* runs with the interval started.  Status 1 comes from nowhere else: a
\* rescan or a device error that leaves no device tracked keeps the monitor
\* running and rescanning.
C14_NoDevicesAtStartup ==
    [][ /\ (phase = "init" /\ phase' # "init") =>
               IF DOMAIN devices' = {}
               THEN /\ phase' = "exited" /\ exitCode' = 1
                    /\ ~intervalActive'
                    /\ NoBackendCall'
               ELSE phase' = "running" /\ intervalActive' /\ exitCode' = -1
        /\ (phase = "running" /\ last'.op \in {"scan", "deviceError"}) =>
               phase' = "running" /\ intervalActive' /\ exitCode' = -1
        /\ (exitCode' = 1) => (phase = "init" \/ exitCode = 1) ]_vars

\* C14 witness: the initial scan tried to open a device, opened none, and
\* the process has exited with status 1.
C14_Witness ==
    /\ phase = "exited" /\ exitCode = 1
    /\ last.op = "startMonitor" /\ last.tried # <<>>
    /\ DOMAIN devices = {}

\* the elements of a sequence
Range(seq) == {seq[i] : i \in 1..Len(seq)}

\* in the scan of this step an open failed
OpenFailed == ScanStep /\ Len(last'.tried) > Len(last'.opened)

\* What a scan does about opens: it calls connectDevice for every listed
\* path that is not tracked (so an open that failed in an earlier scan is
\* tried again, and a failure does not end the loop), and a path whose opens
\* all failed is not tracked afterwards.
ScanTriesAll ==
    LET list      == getDevicesToMonitor(options, present)
        untracked == {list[i].path : i \in 1..Len(list)} \ DOMAIN devices
    IN  /\ Range(last'.tried) = untracked
        /\ Range(last'.opened) \subseteq DOMAIN devices'
        /\ \A p \in untracked \ Range(last'.opened) : p \notin DOMAIN devices'

\* C15 as stated (open failure is non-fatal and retried): in every scan,
\* every listed untracked device is tried, a device whose open fails is not
\* tracked, and the process does not terminate in a scan in which an open
\* failed.
C15_OpenFailureNeverFatal ==
    [][ /\ ScanStep => ScanTriesAll
        /\ OpenFailed => phase' # "exited" ]_vars

\* C15, amended: as above, except that the process does terminate, with
\* status 1, when the scan is the initial one and it opened no device at
\* all; it terminates in no other scan in which an open failed.
C15_OpenFailureNonFatal ==
    [][ /\ ScanStep => ScanTriesAll
        /\ OpenFailed =>
               IF phase = "init" /\ DOMAIN devices' = {}
               THEN phase' = "exited" /\ exitCode' = 1
               ELSE phase' = "running" ]_vars

\* C15 witness: a periodic rescan tried to open an untracked device, the
\* open failed, the device is not tracked and the monitor runs on.
C15_Witness ==
    /\ phase = "running"
    /\ last.op = "scan"
    /\ last.tried # <<>> /\ last.opened = <<>>
    /\ \A i \in 1..Len(last.tried) : last.tried[i] \notin DOMAIN devices

OneFlag == options.touchpadOnly # options.gamepadOnly

\* the class that flag selects
SelectedClass == IF options.touchpadOnly THEN "touchpad" ELSE "gamepad"

\* C17 (filter flags): with exactly one flag given, every scan (initial or
\* periodic) calls connectDevice for exactly the enumerated, untracked devices
\* the classifier puts in the selected class, tracks what it opens under
\* that class, and no tracked device is outside the selected class.
C17_FilterFlags ==
    [][ (OneFlag /\ ScanStep) =>
           LET selected == {p \in present : SelectedClass \in DeviceClasses[p]}
           IN  /\ Range(last'.tried) = selected \ DOMAIN devices
               /\ \A p \in DOMAIN devices' :
                      /\ SelectedClass \in DeviceClasses[p]
                      /\ devices'[p].type = SelectedClass ]_vars

\* C17 witness: --touchpad-only; the initial scan opened the touchpad and
\* left the enumerated gamepad alone.
C17_Witness ==
    /\ options.touchpadOnly /\ ~options.gamepadOnly
    /\ last.op = "startMonitor"
    /\ last.tried = <<"event0">> /\ last.opened = <<"event0">>
    /\ "event2" \in present
    /\ DOMAIN devices = {"event0"}

\* ------------------------------------------------------------------------
\* parseEvent
\* ------------------------------------------------------------------------

\* C18: parseEvent fails for every buffer whose length is not exactly 24
\* bytes, shorter or longer, and succeeds for every buffer of exactly 24.
C18_LengthChecked ==
    (call.fn = "parseEvent" /\ result # Pending) =>
        (result.state = "returned" <=> Len(call.buffer) = RecordSize)

\* what the code does: the reads succeed as soon as 24 bytes are there, and
\* the bytes after them are ignored
C18_PrefixDecoded ==
    (call.fn = "parseEvent" /\ result # Pending) =>
        /\ result.state = "returned" <=> Len(call.buffer) >= RecordSize
        /\ result.state = "returned" =>
               /\ Record(result.value.sec, result.value.usec, result.value.type,
                         result.value.code, result.value.value)
                     = SubSeq(call.buffer, 1, RecordSize)
        /\ result.state = "threw" => result.error = "RangeError"

\* a buffer of 25 bytes has been decoded
C18_Witness ==
    /\ call.fn = "parseEvent"
    /\ Len(call.buffer) = RecordSize + 1
    /\ result.state = "returned"

\* ------------------------------------------------------------------------
\* isTouchpad, isGamepad
\* ------------------------------------------------------------------------

\* bit n of a capability mask: the words are machine words of WordBits
\* bits, the last word holding bits 0..WordBits-1
MaskBit(text, n) ==
    LET w == n \div WordBits
    IN  w < Len(text) /\ BigIntBit(text[Len(text) - w], n % WordBits)

NameHas(info, keyword) == includes(toLowerCase(info.name), keyword)

NameLikeTouchpad(info) ==
    NameHas(info, <<"t", "o", "u", "c", "h", "p", "a", "d">>) \/ NameHas(info, <<"t", "r", "a", "c", "k", "p", "a", "d">>)

NameLikeGamepad(info) ==
    \/ NameHas(info, <<"g", "a", "m", "e", "p", "a", "d">>)
    \/ NameHas(info, <<"j", "o", "y", "s", "t", "i", "c", "k">>)
    \/ NameHas(info, <<"c", "o", "n", "t", "r", "o", "l", "l", "e", "r">>)
    \/ NameHas(info, <<"j", "o", "y">>)

TouchpadRule(info) ==
    \/ NameLikeTouchpad(info)
    \/ /\ MaskBit(info.capabilities.ev, EV_ABS)
       /\ MaskBit(info.capabilities.abs, ABS_X)
       /\ MaskBit(info.capabilities.abs, ABS_Y)
       /\ \/ MaskBit(info.capabilities.key, BTN_TOUCH)
          \/ MaskBit(info.capabilities.key, BTN_TOOL_FINGER)
       /\ ~NameLikeGamepad(info)

GamepadRule(info) ==
    \/ NameLikeGamepad(info)
    \/ MaskBit(info.capabilities.key, BTN_JOYSTICK)
    \/ MaskBit(info.capabilities.key, BTN_GAMEPAD)

\* C19: isTouchpad(info) is true iff the lower-cased name contains touchpad
\* or trackpad, or EV_ABS is set in the ev mask, ABS_X and ABS_Y are set in
\* the abs mask, BTN_TOUCH or BTN_TOOL_FINGER is set in the key mask and the
\* name contains none of joystick, gamepad, controller, joy.
C19_TouchpadRule ==
    (call.fn = "isTouchpad" /\ result # Pending) =>
        (result.value <=> TouchpadRule(call.info))

\* a touchpad known by its capabilities only has been classified: no
\* keyword in the name, EV_ABS, both axes, BTN_TOUCH in a multi-word key mask
C19_Witness ==
    /\ call.fn = "isTouchpad"
    /\ result # Pending
    /\ call.info.name = NameElan
    /\ MaskBit(call.info.capabilities.ev, EV_ABS)
    /\ MaskBit(call.info.capabilities.abs, ABS_X)
    /\ MaskBit(call.info.capabilities.abs, ABS_Y)
    /\ call.info.capabilities.key = KeyTouchpad

\* C20: isGamepad(info) is true iff the lower-cased name contains gamepad,
\* joystick, controller or joy, or the key mask has bit 0x120 (BTN_JOYSTICK)
\* or bit 0x130 (BTN_GAMEPAD) set.
C20_GamepadRule ==
    (call.fn = "isGamepad" /\ result # Pending) =>
        (result.value <=> GamepadRule(call.info))

\* a gamepad known by its key mask only has been classified
C20_Witness ==
    /\ call.fn = "isGamepad"
    /\ result # Pending
    /\ call.info.name = NamePro
    /\ call.info.capabilities.key = KeyGamepad

\* C21: for a capability mask of space-separated hexadecimal words, most
\* significant first, one machine word each and not necessarily padded to 16
\* digits, the classifier's test of bit N (N up to 0x14a) is true iff bit N
\* of the whole multi-word value is set.
C21_MultiWordBitTest ==
    (call.fn = "testBit" /\ result # Pending) =>
        (result.value <=> MaskBit(call.text, call.n))

\* every word but the first is written with all its digits
Padded(text) == \A i \in 2..Len(text) : 4 * Len(text[i]) = WordBits

\* what the code does: the test is right when the text is one word or its
\* lower words are written in full
C21_PaddedBitTest ==
    (call.fn = "testBit" /\ result # Pending /\ Padded(call.text)) =>
        (result.value <=> MaskBit(call.text, call.n))

\* BTN_TOUCH has been tested on the key mask of a touchpad as sysfs prints it
C21_Witness ==
    /\ call.fn = "testBit"
    /\ result # Pending
    /\ call.text = KeyTouchpad
    /\ call.n = BTN_TOUCH
    /\ MaskBit(call.text, call.n)

\* ------------------------------------------------------------------------
\* Rescan and release timer
\* ------------------------------------------------------------------------

\* the periodic rescan can run
RescanReady == phase = "running" /\ intervalActive

\* C22: when a rescan tick and a due release timer are both ready, rescan
\* then release and release then rescan (with the same devices opening) end
\* in the same state: same tracked devices, inhibitor, timer slot, pending
\* timers, subprocesses and backend invocations; after either one the other
\* is still ready; and a rescan leaves the inhibitor and the timer slot as
\* they are.
C22_RescanReleaseCommute ==
    RescanReady =>
        \A ok \in SUBSET Attempts(devices, options, present) :
            /\ rescanCallback(Turn, ok).ctrl = Cur
            /\ \A t \in timers :
                  t.left = 0 =>
                     LET scanned  == rescanCallback(Turn, ok)
                         released == releaseCallback(Turn, t)
                     IN  /\ t \in scanned.ctrl.timers
                         /\ released.ctrl.phase = "running"
                         /\ Attempts(released.devices, options, present)
                              = Attempts(devices, options, present)
                         /\ releaseCallback(scanned, t) = rescanCallback(released, ok)

\* both are ready, the rescan has a new device to connect and the release
\* has an inhibition to lift
C22_Witness ==
    /\ RescanReady
    /\ \E t \in timers : t.left = 0 /\ t.id = releaseTimeoutId
    /\ inhibitor.active
    /\ Attempts(devices, options, present) # {}

\* ------------------------------------------------------------------------
\* EvdevDevice
\* ------------------------------------------------------------------------

\* the step is the completion of a read on a reader that was open
ReadOnOpenReader ==
    /\ reader'.nReads = reader.nReads + 1
    /\ isOpen(reader)

C24_PartialReadIsError ==
    (/\ reader.op = "read"
     /\ reader.wasOpen
     /\ ~reader.err
     /\ reader.bytesRead \in 1..(RecordSize - 1)) =>
        /\ ~isOpen(reader)
        /\ reader.nError >= 1
        /\ reader.pending = 0

\* what the code does with a partial read: nothing is delivered, the reader
\* stays open and the next read is requested
C24_PartialReadSkipped ==
    [][ (/\ ReadOnOpenReader
         /\ ~reader'.err
         /\ reader'.bytesRead \in 1..(RecordSize - 1)) =>
            /\ isOpen(reader')
            /\ reader'.nError = reader.nError
            /\ reader'.nEvent = reader.nEvent
            /\ reader'.pending = 1 ]_vars

\* an open reader has just completed a partial read
C24_Witness ==
    /\ reader.op = "read"
    /\ reader.wasOpen
    /\ ~reader.err
    /\ reader.bytesRead \in 1..(RecordSize - 1)

\* the reader is closed, holds no descriptor, and the call returned
ClosedReader(r) ==
    /\ r.fd = NoFd
    /\ ~isOpen(r)
    /\ r.handles = {}
    /\ ~r.raised

\* C25: close(), in whatever state the reader is and whether or not closing
\* the descriptor fails, returns with the reader closed and the descriptor
\* released, and a second close() changes nothing.
C25_CloseIdempotent ==
    /\ reader.op = "close" => ClosedReader(reader)
    /\ \A c1, c2 \in BOOLEAN :
          /\ ClosedReader(close(reader, c1))
          /\ close(close(reader, c1), c2) = close(reader, c1)

\* close() has been called twice on a reader that a terminal error had
\* closed before
C25_Witness ==
    /\ reader.op = "close"
    /\ reader.nCloseCalls = 2
    /\ reader.terminal

\* ------------------------------------------------------------------------
\* Backend calls and the release timer
\* ------------------------------------------------------------------------

\* the dms subprocesses in flight that carry the command cmd
InFlight(bag, cmd) ==
    {c \in BagToSet(bag) : c.stage = "dms" /\ c.cmd = cmd}

NumInFlight(bag, cmd) ==
    LET S == InFlight(bag, cmd)
    IN  IF S = {} THEN 0
        ELSE IF Cardinality(S) = 1 /\ \A c \in S : CopiesIn(c, bag) = 1 THEN 1
        ELSE 2

\* the step spawns a dms subprocess with the command cmd
Started(cmd) ==
    \E c \in InFlight(calls', cmd) : CopiesIn(c, calls') > CopiesIn(c, calls)

\* C26: a disable invocation is never started while an enable invocation is
\* in flight, and at most one enable invocation is in flight at any time.
C26_NoOverlap ==
    [][ /\ Started("disable") => InFlight(calls, "enable") = {}
        /\ NumInFlight(calls', "enable") <= 1 ]_vars

\* the disable call of a release timer has been started and has not returned
TimerReleaseInFlight ==
    \E c \in BagToSet(calls) : c.origin = "timer" /\ c.cmd = "disable"

\* an activity event has just been handled while the monitor runs, with the
\* backend installed, and the disable call of the release timer is in flight
ActivityDuringRelease ==
    /\ dmsInPath
    /\ phase = "running"
    /\ last.op = "onInput"
    /\ last.arg # "syn"
    /\ TimerReleaseInFlight

\* the backend was last told to enable and no disable is on its way
BackendEnabled ==
    /\ backend.lastCmd = "enable"
    /\ \A c \in BagToSet(calls) : c.cmd # "disable"

\* C27: an activity event handled while the release timer's disable call is
\* in flight leads to the backend being enabled again after that disable
\* (unless the monitor is shut down first).
C27_ActivityNotLost ==
    ActivityDuringRelease ~> (BackendEnabled \/ phase # "running")

\* the step spawns the disable subprocess of a release timer
TimerDisableStarted ==
    \E c \in InFlight(calls', "disable") :
        c.origin = "timer" /\ CopiesIn(c, calls') > CopiesIn(c, calls)

\* C28: the disable invocation that a release timer causes is never started
\* earlier than the duration after the most recently handled activity event.
C28_NoEarlyRelease ==
    [][ TimerDisableStarted => hist.sinceLast >= Duration ]_vars

\* every pending release timer is the one releaseTimeoutId refers to, so
\* clearReleaseTimeout can cancel it
TimersCancellable == \A t \in timers : t.id = releaseTimeoutId

\* C29: while the process lives, releaseTimeoutId is non-null iff a release
\* timer is pending, and it identifies that timer; every pending release
\* timer stays cancellable.
C29_TimerSlotConsistent ==
    Alive =>
        /\ releaseTimeoutId # NoTimer <=> \E t \in timers : t.id = releaseTimeoutId
        /\ TimersCancellable

\* C30: with the backend installed, whenever no probe and no backend
\* invocation is in flight, inhibitor.active is true iff the command issued
\* last was enable.
C30_FlagAgreesAtRest ==
    (Alive /\ dmsInPath /\ calls = EmptyBag) =>
        (inhibitor.active <=> backend.lastCmd = "enable")

\* ------------------------------------------------------------------------
\* Shutdown and the backend
\* ------------------------------------------------------------------------

\* the step sets a release timer
TimerScheduled ==
    \E t \in timers' : t.left = Duration /\ t \notin timers

\* C31: once the shutdown handler has started, no release timer is
\* scheduled and no enable is issued after the shutdown's disable; and if an
\* enable was ever issued, the last command issued before the process exits
\* is disable.
C31_ShutdownLeavesReleased ==
    [][ /\ phase = "shutdown" => ~TimerScheduled
        /\ (phase = "shutdown" /\ backend.nDisableShutdown >= 1) =>
               ~Started("enable")
        /\ (phase = "shutdown" /\ phase' = "exited" /\ backend'.nEnable >= 1) =>
               backend'.lastCmd = "disable" ]_vars

\* ------------------------------------------------------------------------
\* EvdevDevice after close()
\* ------------------------------------------------------------------------

\* C32: after close() has returned, the reader calls neither the event
\* listener nor the error listener again, also when a read that was pending
\* at close() completes later with data or with an error.
C32_NoCallbacksAfterClose ==
    [][ reader.closed =>
           /\ reader'.nEvent = reader.nEvent
           /\ reader'.nError = reader.nError ]_vars

\* what the code does guarantee: after close() no further read is
\* requested, so at most the one read pending at close() calls back
C32_NoReadsAfterClose ==
    [][ reader.closed => reader'.pending <= reader.pending ]_vars


\* C33: on an IdleInhibitor object, after any sequence of inhibit() and
\* release() calls, at most one release timeout is pending and timeoutId
\* refers to it.
C33_OneTimeoutPending ==
    \A t \in idleInhibitor.timers : t.id = idleInhibitor.timeoutId

\* the step is a call of inhibit()
InhibitCalled ==
    idleInhibitor'.nInhibitCalls = idleInhibitor.nInhibitCalls + 1

\* C33, second half: an inhibit() on an active object starts no subprocess;
\* it cancels the timeout timeoutId refers to and sets a full one.
C33_ActiveOnlyExtends ==
    [][ (InhibitCalled /\ idleInhibitor.active) =>
           /\ idleInhibitor'.nEnable = idleInhibitor.nEnable
           /\ idleInhibitor'.calls = idleInhibitor.calls
           /\ idleInhibitor'.active
           /\ \E t \in idleInhibitor'.timers :
                  /\ t.id = idleInhibitor'.timeoutId
                  /\ t.left = Duration
                  /\ idleInhibitor'.timers =
                        {u \in idleInhibitor.timers :
                            u.id # idleInhibitor.timeoutId} \cup {t} ]_vars

\* an inhibit() was made on an active object whose enable is in flight
C33_Witness ==
    /\ idleInhibitor.active
    /\ idleInhibitor.nInhibitCalls >= 2
    /\ \E c \in BagToSet(idleInhibitor.calls) : c.command = "enable"
    /\ idleInhibitor.timers # {}


\* the descriptors a tracked device accounts for: that of the reader of the
\* path if the path is tracked, none otherwise
TrackedHandles ==
    IF TrackedPath \in DOMAIN devices THEN {reader.fd} \ {NoFd} ELSE {}

\* C34: in every state of a running monitor each open device handle belongs
\* to a currently tracked device.
C34_NoHandleLeak ==
    Alive => reader.handles \subseteq TrackedHandles

\* C34, as a step: when a device is removed from the tracked set, by the
\* device-error handler or by the cleanup pass of a rescan, the descriptor
\* of its reader has been released.
C34_RemovedIsReleased ==
    [][ (TrackedPath \in DOMAIN devices /\ TrackedPath \notin DOMAIN devices') =>
           reader.fd \notin reader'.handles ]_vars

====
